---- MODULE Spec2Model ----
(***************************************************************************)
(* Model of the burn+close transaction/instruction builders of             *)
(* spl-burn-close-sdk.                                                     *)
(*                                                                         *)
(*   src/src/index.ts      buildBurnAndCloseTransactions (one shared       *)
(*                         blockhash, payload [0], token program argument) *)
(*                         buildBurnAndCloseInstruction                    *)
(*   src/unnamed/part_000  buildBurnAndCloseTransactions (blockhash per    *)
(*                         transaction, payload [0, 5])                    *)
(*                                                                         *)
(* An async builder call runs from "idle" to its first await               *)
(* (connection.getLatestBlockhash), is resumed by the client resolving or  *)
(* rejecting, and ends "done" (promise fulfilled) or "failed" (promise     *)
(* rejected).  An optional value (undefined or a value) is a sequence of   *)
(* length 0 or 1.                                                          *)
(***************************************************************************)
EXTENDS Integers, Sequences, FiniteSets

VARIABLES fn, pc, programId, user, pairs, options, tokenProgramId,
          txs, txResult, ixResult, error, clientError,
          fetchCalls, fetched, tip

vars == <<fn, pc, programId, user, pairs, options, tokenProgramId,
          txs, txResult, ixResult, error, clientError,
          fetchCalls, fetched, tip>>

----------------------------------------------------------------------------
(* Bounds of the explored inputs *)

NumPairs == 2      \* distinct pairs the short lists draw from
MaxLen == 2        \* longest short pair list
MaxLong == 13      \* longest pair list of distinct pairs (beyond the default chunk size)
MaxChunk == 3      \* largest explicit options.chunkSize

----------------------------------------------------------------------------
(* Addresses *)

Key(tag, n) == <<tag, n>>

PROGRAM_ID == Key("PROGRAM_ID", 0)
FEE_RECIPIENT == Key("FEE_RECIPIENT", 0)
TOKEN_PROGRAM_ID == Key("TOKEN_PROGRAM_ID", 0)
TOKEN_2022_PROGRAM_ID == Key("TOKEN_2022_PROGRAM_ID", 0)
SystemProgramId == Key("SystemProgram.programId", 0)
FIXED_FEE_PERCENTAGE == 5
DefaultChunkSize == 12
DefaultCommitment == "confirmed"

Pair(i) == [mint |-> Key("mint", i), ata |-> Key("ata", i)]

(* undefined, or a value *)
None == <<>>
Some(v) == <<v>>
Opt(S) == {None} \cup {Some(v) : v \in S}

(* a ?? b *)
Coalesce(a, b) == IF a = None THEN b ELSE a[1]

(* JavaScript truthiness of an optional string: undefined and "" are falsy *)
Truthy(s) == s # None /\ s[1] # ""

(* Math.max(1, n) *)
MathMax(a, b) == IF a >= b THEN a ELSE b

(* a byte array built from numbers: each element is stored modulo 256 *)
RECURSIVE Bytes(_)
Bytes(ns) == IF ns = <<>> THEN <<>> ELSE <<ns[1] % 256>> \o Bytes(Tail(ns))

----------------------------------------------------------------------------
(* Inputs *)

Wallets == {Key("wallet", 1)}
FeePayers == {Key("wallet", 2)}
ProgramIds == {PROGRAM_ID, Key("program", 1)}
TokenPrograms == {TOKEN_2022_PROGRAM_ID}
Commitments == {"finalized"}
SuppliedBlockhashes == {"", "callerHash"}
ChainHashes == <<"chainHashA", "chainHashB">>
ClientErrors == {"FetchError", "TimeoutError"}

PairUniverse == {Pair(i) : i \in 1..NumPairs}
ShortLists == UNION {[1..n -> PairUniverse] : n \in 0..MaxLen}
LongLists == {[i \in 1..n |-> Pair(i)] : n \in DefaultChunkSize..MaxLong}
PairLists == ShortLists \cup LongLists

ChunkSizes == (-1)..MaxChunk

(* The four declared fields of BuildOptions, and includeFeeByte: a property *)
(* outside the declared type, what a caller would set to ask for the       *)
(* one-byte or the two-byte payload.  No builder reads it.                 *)
BuildOptions ==
  [chunkSize : Opt(ChunkSizes),
   commitment : Opt(Commitments),
   feePayer : Opt(FeePayers),
   recentBlockhash : Opt(SuppliedBlockhashes),
   includeFeeByte : Opt(BOOLEAN)]

NoOptions ==
  [chunkSize |-> None, commitment |-> None, feePayer |-> None,
   recentBlockhash |-> None, includeFeeByte |-> None]

----------------------------------------------------------------------------
(* Pure parts of the builders *)

(* pairs.slice(from, to) with 0-based from and exclusive to, clamped to the length *)
Slice(ps, from, to) ==
  SubSeq(ps, from + 1, IF to > Len(ps) THEN Len(ps) ELSE to)

(* variant: options.chunkSize || 12, a zero chunk size falls back to the default *)
EffectiveChunkSizeFalsyDefault(o) ==
  MathMax(1, IF o.chunkSize = None \/ o.chunkSize[1] = 0 THEN DefaultChunkSize ELSE o.chunkSize[1])

EffectiveChunkSize(o) == MathMax(1, Coalesce(o.chunkSize, DefaultChunkSize))

(* for (let i = 0; i < pairs.length; i += chunkSize) chunks.push(pairs.slice(i, i + chunkSize)) *)
RECURSIVE ChunkLoop(_, _, _, _)
ChunkLoop(ps, chunkSize, i, chunks) ==
  IF i < Len(ps)
  THEN ChunkLoop(ps, chunkSize, i + chunkSize, Append(chunks, Slice(ps, i, i + chunkSize)))
  ELSE chunks

Chunks(ps, o) == ChunkLoop(ps, EffectiveChunkSize(o), 0, <<>>)

(* variant: the fee payer option is ignored *)
FeePayerAlwaysUser(o, u) == u

FeePayerOf(o, u) == Coalesce(o.feePayer, u)
CommitmentOf(o) == Coalesce(o.commitment, DefaultCommitment)

Meta(k, signer, writable) == [pubkey |-> k, isSigner |-> signer, isWritable |-> writable]

(* for (const { mint, ata } of chunk) keys.push(mint meta, ata meta) *)
RECURSIVE PushPairs(_, _)
PushPairs(keys, chunk) ==
  IF chunk = <<>> THEN keys
  ELSE PushPairs(keys \o <<Meta(chunk[1].mint, FALSE, TRUE), Meta(chunk[1].ata, FALSE, TRUE)>>,
                 Tail(chunk))

(* variant: the user listed before the fee recipient *)
ChunkKeysUserFirst(u, t, chunk) ==
  PushPairs(<<Meta(u, TRUE, TRUE),
              Meta(FEE_RECIPIENT, FALSE, TRUE),
              Meta(t, FALSE, FALSE),
              Meta(SystemProgramId, FALSE, FALSE)>>, chunk)

(* index.ts: the account list of one chunk *)
ChunkKeys(u, t, chunk) ==
  PushPairs(<<Meta(FEE_RECIPIENT, FALSE, TRUE),
              Meta(u, TRUE, TRUE),
              Meta(t, FALSE, FALSE),
              Meta(SystemProgramId, FALSE, FALSE)>>, chunk)

(* variant: the fee byte sent by the builder of index.ts too *)
TransactionsDataWithFee == Bytes(<<0, FIXED_FEE_PERCENTAGE>>)

(* index.ts: new Uint8Array([0]) *)
TransactionsData == Bytes(<<0>>)

TransactionInstruction(p, keys, data) == [programId |-> p, keys |-> keys, data |-> data]

Transaction(ix, payer, blockhash) ==
  [instructions |-> <<ix>>, feePayer |-> payer, recentBlockhash |-> blockhash]

(* index.ts: for (const chunk of chunks) { ... txs.push(tx) } *)
RECURSIVE BuildLoop(_, _, _, _, _, _, _)
BuildLoop(chunks, k, acc, p, u, t, env) ==
  IF k > Len(chunks) THEN acc
  ELSE BuildLoop(chunks, k + 1,
         Append(acc, Transaction(TransactionInstruction(p, ChunkKeys(u, t, chunks[k]), TransactionsData),
                                 env.feePayer, env.recentBlockhash)),
         p, u, t, env)

BuildAll(p, u, ps, o, t, blockhash) ==
  BuildLoop(Chunks(ps, o), 1, <<>>, p, u, Coalesce(t, TOKEN_PROGRAM_ID),
            [feePayer |-> FeePayerOf(o, u), recentBlockhash |-> blockhash])

(* variant: the empty check is missing *)
IsEmptyNever(ps) == FALSE

(* !pairs.length *)
IsEmpty(ps) == Len(ps) = 0

(* part_000: the account list of one chunk; the token program is fixed *)
LegacyChunkKeys(u, chunk) ==
  PushPairs(<<Meta(FEE_RECIPIENT, FALSE, TRUE),
              Meta(u, TRUE, TRUE),
              Meta(TOKEN_PROGRAM_ID, FALSE, FALSE),
              Meta(SystemProgramId, FALSE, FALSE)>>, chunk)

(* variant: the two payload bytes in the other order *)
LegacyDataSwapped == Bytes(<<FIXED_FEE_PERCENTAGE, 0>>)

(* part_000: Buffer.from([0, FIXED_FEE_PERCENTAGE]) *)
LegacyData == Bytes(<<0, FIXED_FEE_PERCENTAGE>>)

(* part_000: the transaction of chunk k, before its blockhash is decided *)
LegacyTx(chunks, k, p, u, o, blockhash) ==
  Transaction(TransactionInstruction(p, LegacyChunkKeys(u, chunks[k]), LegacyData),
              FeePayerOf(o, u), blockhash)

(* part_000: for (const chunk of chunks) { ... }, run from chunk k until the *)
(* loop ends or an iteration has to await a blockhash                        *)
RECURSIVE LegacyLoop(_, _, _, _, _, _)
LegacyLoop(chunks, k, acc, p, u, o) ==
  IF k > Len(chunks) THEN [txs |-> acc, suspended |-> FALSE]
  ELSE IF Truthy(o.recentBlockhash)
  THEN LegacyLoop(chunks, k + 1,
                  Append(acc, LegacyTx(chunks, k, p, u, o, o.recentBlockhash[1])), p, u, o)
  ELSE [txs |-> acc, suspended |-> TRUE]

(* index.ts buildBurnAndCloseInstruction: new Uint8Array([0]) *)
InstructionData == Bytes(<<0>>)

(* variant: the token account pushed before its mint *)
RECURSIVE InstructionPushPairsAtaFirst(_, _, _)
InstructionPushPairsAtaFirst(keys, ps, i) ==
  IF i > Len(ps) THEN keys
  ELSE InstructionPushPairsAtaFirst(Append(Append(keys, Meta(ps[i].ata, FALSE, TRUE)),
                                           Meta(ps[i].mint, FALSE, TRUE)), ps, i + 1)

(* index.ts buildBurnAndCloseInstruction: for (const { mint, ata } of pairs) keys.push(...) *)
RECURSIVE InstructionPushPairs(_, _, _)
InstructionPushPairs(keys, ps, i) ==
  IF i > Len(ps) THEN keys
  ELSE InstructionPushPairs(Append(Append(keys, Meta(ps[i].mint, FALSE, TRUE)),
                                   Meta(ps[i].ata, FALSE, TRUE)), ps, i + 1)

(* index.ts buildBurnAndCloseInstruction: the account list *)
InstructionKeys(u, ps, t) ==
  InstructionPushPairs(<<Meta(FEE_RECIPIENT, FALSE, TRUE),
                         Meta(u, TRUE, TRUE),
                         Meta(t, FALSE, FALSE),
                         Meta(SystemProgramId, FALSE, FALSE)>>, ps, 1)


----------------------------------------------------------------------------
Init ==
  /\ fn = "none"
  /\ pc = "idle"
  /\ programId = PROGRAM_ID
  /\ user = Key("wallet", 1)
  /\ pairs = <<>>
  /\ options = NoOptions
  /\ tokenProgramId = None
  /\ txs = <<>>
  /\ txResult = <<>>
  /\ ixResult = <<>>
  /\ error = None
  /\ clientError = None
  /\ fetchCalls = 0
  /\ fetched = <<>>
  /\ tip = 1

(* the arguments of a call *)
Enter(f, p, u, ps, o, t) ==
  /\ fn' = f
  /\ programId' = p
  /\ user' = u
  /\ pairs' = ps
  /\ options' = o
  /\ tokenProgramId' = t

(* index.ts buildBurnAndCloseTransactions, up to its return or its await *)
buildBurnAndCloseTransactions ==
  /\ pc = "idle"
  /\ \E p \in ProgramIds, u \in Wallets, ps \in PairLists, o \in BuildOptions, t \in Opt(TokenPrograms) :
    /\ Enter("index", p, u, ps, o, t)
    /\ IF IsEmpty(ps)
       THEN /\ pc' = "done"
            /\ txResult' = <<>>
            /\ UNCHANGED <<txs, fetchCalls>>
       ELSE IF o.recentBlockhash # None
       THEN /\ pc' = "done"
            /\ txs' = BuildAll(p, u, ps, o, t, o.recentBlockhash[1])
            /\ txResult' = txs'
            /\ UNCHANGED fetchCalls
       ELSE /\ pc' = "await"
            /\ fetchCalls' = fetchCalls + 1
            /\ UNCHANGED <<txs, txResult>>
    /\ UNCHANGED <<ixResult, error, clientError, fetched, tip>>

(* index.ts: getLatestBlockhash resolves; the rest of the call runs to its return *)
getLatestBlockhashResolves ==
  /\ pc = "await"
  /\ fn = "index"
  /\ \E t \in tip..Len(ChainHashes) :
    /\ tip' = t
    /\ fetched' = Append(fetched, [commitment |-> CommitmentOf(options), blockhash |-> ChainHashes[t]])
    /\ txs' = BuildAll(programId, user, pairs, options, tokenProgramId, ChainHashes[t])
    /\ txResult' = txs'
    /\ pc' = "done"
    /\ UNCHANGED <<fn, programId, user, pairs, options, tokenProgramId,
                   ixResult, error, clientError, fetchCalls>>

(* index.ts: getLatestBlockhash rejects; the await throws and the call rejects *)
getLatestBlockhashRejects ==
  /\ pc = "await"
  /\ fn = "index"
  /\ \E e \in ClientErrors :
    /\ clientError' = Some(e)
    /\ error' = Some(e)
    /\ pc' = "failed"
    /\ UNCHANGED <<fn, programId, user, pairs, options, tokenProgramId,
                   txs, txResult, ixResult, fetchCalls, fetched, tip>>

(* part_000 buildBurnAndCloseTransactions, up to its return or its first await *)
buildBurnAndCloseTransactions_part000 ==
  /\ pc = "idle"
  /\ \E p \in ProgramIds, u \in Wallets, ps \in PairLists, o \in BuildOptions :
    /\ Enter("part_000", p, u, ps, o, None)
    /\ IF IsEmpty(ps)
       THEN /\ pc' = "done"
            /\ txResult' = <<>>
            /\ UNCHANGED <<txs, fetchCalls>>
       ELSE LET r == LegacyLoop(Chunks(ps, o), 1, <<>>, p, u, o) IN
            /\ txs' = r.txs
            /\ IF r.suspended
               THEN /\ pc' = "await"
                    /\ fetchCalls' = fetchCalls + 1
                    /\ UNCHANGED txResult
               ELSE /\ pc' = "done"
                    /\ txResult' = r.txs
                    /\ UNCHANGED fetchCalls
    /\ UNCHANGED <<ixResult, error, clientError, fetched, tip>>

(* part_000: getLatestBlockhash resolves inside the loop; the loop goes on *)
(* to its next await or to the return                                      *)
getLatestBlockhashResolves_part000 ==
  /\ pc = "await"
  /\ fn = "part_000"
  /\ \E t \in tip..Len(ChainHashes) :
    /\ tip' = t
    /\ fetched' = Append(fetched, [commitment |-> CommitmentOf(options), blockhash |-> ChainHashes[t]])
    /\ LET chunks == Chunks(pairs, options)
           k == Len(txs) + 1
           r == LegacyLoop(chunks, k + 1,
                           Append(txs, LegacyTx(chunks, k, programId, user, options, ChainHashes[t])),
                           programId, user, options)
       IN /\ txs' = r.txs
          /\ IF r.suspended
             THEN /\ pc' = "await"
                  /\ fetchCalls' = fetchCalls + 1
                  /\ UNCHANGED txResult
             ELSE /\ pc' = "done"
                  /\ txResult' = r.txs
                  /\ UNCHANGED fetchCalls
    /\ UNCHANGED <<fn, programId, user, pairs, options, tokenProgramId,
                   ixResult, error, clientError>>

(* variant: the rejection is swallowed and the transactions built so far are returned *)
getLatestBlockhashRejectsPartial ==
  /\ pc = "await"
  /\ fn = "part_000"
  /\ \E e \in ClientErrors :
    /\ clientError' = Some(e)
    /\ txResult' = txs
    /\ pc' = "done"
    /\ UNCHANGED <<fn, programId, user, pairs, options, tokenProgramId,
                   txs, ixResult, error, fetchCalls, fetched, tip>>

(* part_000: getLatestBlockhash rejects; the await throws out of the loop *)
getLatestBlockhashRejects_part000 ==
  /\ pc = "await"
  /\ fn = "part_000"
  /\ \E e \in ClientErrors :
    /\ clientError' = Some(e)
    /\ error' = Some(e)
    /\ pc' = "failed"
    /\ UNCHANGED <<fn, programId, user, pairs, options, tokenProgramId,
                   txs, txResult, ixResult, fetchCalls, fetched, tip>>

(* index.ts buildBurnAndCloseInstruction: no await inside, it runs to its return *)
buildBurnAndCloseInstruction ==
  /\ pc = "idle"
  /\ \E p \in ProgramIds, u \in Wallets, ps \in PairLists, t \in {TOKEN_PROGRAM_ID} \cup TokenPrograms :
    /\ Enter("instruction", p, u, ps, NoOptions, Some(t))
    /\ pc' = "done"
    /\ ixResult' = IF IsEmpty(ps) THEN <<>>
                   ELSE <<TransactionInstruction(p, InstructionKeys(u, ps, t), InstructionData)>>
    /\ UNCHANGED <<txs, txResult, error, clientError, fetchCalls, fetched, tip>>

(* the caller has taken the outcome of the call; the next call starts afresh *)
Return ==
  /\ pc \in {"done", "failed"}
  /\ fn' = "none"
  /\ pc' = "idle"
  /\ programId' = PROGRAM_ID
  /\ user' = Key("wallet", 1)
  /\ pairs' = <<>>
  /\ options' = NoOptions
  /\ tokenProgramId' = None
  /\ txs' = <<>>
  /\ txResult' = <<>>
  /\ ixResult' = <<>>
  /\ error' = None
  /\ clientError' = None
  /\ fetchCalls' = 0
  /\ fetched' = <<>>
  /\ UNCHANGED tip

Next ==
  \/ buildBurnAndCloseTransactions
  \/ getLatestBlockhashResolves
  \/ getLatestBlockhashRejects
  \/ buildBurnAndCloseTransactions_part000
  \/ getLatestBlockhashResolves_part000
  \/ getLatestBlockhashRejects_part000
  \/ buildBurnAndCloseInstruction
  \/ Return

Spec == Init /\ [][Next]_vars

----------------------------------------------------------------------------
(* What the properties below speak of *)

TxBuilders == {"index", "part_000"}

(* a chunked builder has returned its list *)
Returned == pc = "done" /\ fn \in TxBuilders

(* the chunk size the contract names: max(1, chunkSize if given, else 12) *)
ClaimedSize ==
  LET c == IF options.chunkSize = None THEN 12 ELSE options.chunkSize[1]
  IN IF c < 1 THEN 1 ELSE c

CeilDiv(a, b) == (a + b - 1) \div b

Min(a, b) == IF a <= b THEN a ELSE b

(* the j-th contiguous slice of at most ClaimedSize pairs *)
ClaimedSlice(j) ==
  SubSeq(pairs, (j - 1) * ClaimedSize + 1, Min(j * ClaimedSize, Len(pairs)))

(* the (mint, token account) pairs an account list carries after its four fixed accounts *)
RECURSIVE PairsFrom(_, _)
PairsFrom(keys, i) ==
  IF i > Len(keys) THEN <<>>
  ELSE IF i = Len(keys) THEN <<[mint |-> keys[i].pubkey, ata |-> keys[i].pubkey, odd |-> TRUE]>>
  ELSE <<[mint |-> keys[i].pubkey, ata |-> keys[i + 1].pubkey]>> \o PairsFrom(keys, i + 2)

PairsCarried(tx) == PairsFrom(tx.instructions[1].keys, 5)

RECURSIVE AllPairsCarried(_)
AllPairsCarried(ts) ==
  IF ts = <<>> THEN <<>> ELSE PairsCarried(ts[1]) \o AllPairsCarried(Tail(ts))

(* the account list the contract names for user u, token program t and the pairs ps *)
ClaimedKeys(u, t, ps) ==
  [i \in 1..(4 + 2 * Len(ps)) |->
     IF i = 1 THEN [pubkey |-> FEE_RECIPIENT, isSigner |-> FALSE, isWritable |-> TRUE]
     ELSE IF i = 2 THEN [pubkey |-> u, isSigner |-> TRUE, isWritable |-> TRUE]
     ELSE IF i = 3 THEN [pubkey |-> t, isSigner |-> FALSE, isWritable |-> FALSE]
     ELSE IF i = 4 THEN [pubkey |-> SystemProgramId, isSigner |-> FALSE, isWritable |-> FALSE]
     ELSE IF i % 2 = 1 THEN [pubkey |-> ps[(i - 3) \div 2].mint, isSigner |-> FALSE, isWritable |-> TRUE]
     ELSE [pubkey |-> ps[(i - 4) \div 2].ata, isSigner |-> FALSE, isWritable |-> TRUE]]

(* the token program the call names: the supplied one, else the canonical one *)
ClaimedTokenProgram == IF tokenProgramId = None THEN TOKEN_PROGRAM_ID ELSE tokenProgramId[1]

----------------------------------------------------------------------------
(* C1: for a non-empty pair list and any chunkSize option (omitted, zero,  *)
(* negative or positive), the builder returns ceil(len/E) transactions     *)
(* with E = max(1, chunkSize or 12); the j-th transaction carries the j-th *)
(* contiguous slice of at most E pairs, and the carried pairs concatenated *)
(* in returned order are the input list.                                   *)
C1_ChunkingReconstructsPairs ==
  (Returned /\ pairs # <<>>) =>
    /\ Len(txResult) = CeilDiv(Len(pairs), ClaimedSize)
    /\ AllPairsCarried(txResult) = pairs
    /\ \A j \in 1..Len(txResult) :
         /\ Len(PairsCarried(txResult[j])) \in 1..ClaimedSize
         /\ PairsCarried(txResult[j]) = ClaimedSlice(j)

C1_Witness ==
  /\ Returned
  /\ options.chunkSize = Some(0)
  /\ Len(pairs) = 13
  /\ Len(txResult) = 13

(* C2: with options.recentBlockhash omitted and a non-empty pair list, one *)
(* call makes exactly one blockhash fetch, whatever the number of chunks,  *)
(* and every returned transaction carries that fetched blockhash.          *)
C2_SingleFetchShared ==
  (fn \in TxBuilders /\ options.recentBlockhash = None /\ pairs # <<>>) =>
    /\ fetchCalls = 1
    /\ Returned =>
         /\ Len(fetched) = 1
         /\ \A j \in 1..Len(txResult) : txResult[j].recentBlockhash = fetched[1].blockhash

(* C2 restricted to the builder of index.ts, which resolves the blockhash   *)
(* once before its loop.                                                   *)
C2_SingleFetchShared_index ==
  fn = "index" => C2_SingleFetchShared

(* C3: with options.recentBlockhash supplied (any string, the empty string *)
(* included), the builder makes no call on the client and every returned   *)
(* transaction carries the supplied value.                                 *)
C3_SuppliedBlockhashNoFetch ==
  (fn \in TxBuilders /\ options.recentBlockhash # None) =>
    /\ fetchCalls = 0
    /\ Returned =>
         \A j \in 1..Len(txResult) : txResult[j].recentBlockhash = options.recentBlockhash[1]

(* C3 restricted to the builder of index.ts, which tests the option with ?? *)
C3_SuppliedBlockhashNoFetch_index ==
  fn = "index" => C3_SuppliedBlockhashNoFetch

(* C4: for an empty pair list and any options, the builder returns an      *)
(* empty list and never calls the client.                                  *)
C4_EmptyPairsNoFetch ==
  (fn \in TxBuilders /\ pairs = <<>>) =>
    /\ pc = "done"
    /\ txResult = <<>>
    /\ fetchCalls = 0
    /\ fetched = <<>>

C4_Witness ==
  /\ Returned
  /\ pairs = <<>>
  /\ options.recentBlockhash = None
  /\ options.chunkSize = Some(0)
  /\ txResult = <<>>

(* C5: the one instruction of the j-th returned transaction has 4 + 2n     *)
(* accounts for its chunk of n pairs: fee recipient (writable), user       *)
(* (writable signer), token program (supplied or canonical, read-only),    *)
(* system program (read-only), then mint and token account of each pair of *)
(* the chunk in input order, writable non-signers.                         *)
C5_AccountLayout ==
  Returned =>
    \A j \in 1..Len(txResult) :
      /\ Len(txResult[j].instructions) = 1
      /\ Len(txResult[j].instructions[1].keys) = 4 + 2 * Len(ClaimedSlice(j))
      /\ txResult[j].instructions[1].keys = ClaimedKeys(user, ClaimedTokenProgram, ClaimedSlice(j))

C5_Witness ==
  /\ Returned
  /\ fn = "index"
  /\ tokenProgramId = Some(TOKEN_2022_PROGRAM_ID)
  /\ Len(pairs) = 13
  /\ Len(txResult) = 2
  /\ Len(txResult[1].instructions[1].keys) = 28
  /\ Len(txResult[2].instructions[1].keys) = 6

(* C6: when the blockhash fetch fails the call fails with the client's     *)
(* error, delivers no transaction and issues no further fetch; a call that *)
(* returns delivers the transactions of all chunks; nothing is delivered   *)
(* before the return.                                                      *)
C6_AllOrNothing ==
  /\ pc = "failed" =>
       /\ error # None
       /\ error = clientError
       /\ txResult = <<>>
       /\ fetchCalls = Len(fetched) + 1
  /\ Returned => Len(txResult) = CeilDiv(Len(pairs), ClaimedSize)
  /\ (fn \in TxBuilders /\ pc # "done") => txResult = <<>>

C6_Witness ==
  /\ pc = "failed"
  /\ fn = "part_000"
  /\ Len(txs) = 1
  /\ Len(pairs) = 2
  /\ error = Some("TimeoutError")

(* C7: every instruction of a builder carries that builder's constant      *)
(* payload: byte 0 alone from the two builders of index.ts, byte 0 then    *)
(* fee byte 5 from the builder of part_000, whatever the pairs, user,      *)
(* program id and options.                                                 *)
C7_ConstantPayload ==
  /\ Returned =>
       \A j \in 1..Len(txResult) :
         txResult[j].instructions[1].data = IF fn = "index" THEN <<0>> ELSE <<0, 5>>
  /\ (fn = "instruction" /\ pc = "done") =>
       \A j \in 1..Len(ixResult) : ixResult[j].data = <<0>>

C7_Witness ==
  /\ Returned
  /\ fn = "part_000"
  /\ Len(txResult) = 2
  /\ programId # PROGRAM_ID
  /\ txResult[2].instructions[1].data = <<0, 5>>

C9_SingleInstruction ==
  (fn = "instruction" /\ pc = "done") =>
    /\ fetchCalls = 0
    /\ fetched = <<>>
    /\ pairs = <<>> => ixResult = <<>>
    /\ pairs # <<>> =>
         /\ Len(ixResult) = 1
         /\ Len(ixResult[1].keys) = 4 + 2 * Len(pairs)
         /\ ixResult[1].keys = ClaimedKeys(user, ClaimedTokenProgram, pairs)
         /\ \A c \in Len(pairs)..(Len(pairs) + 1) :
              LET ts == BuildAll(programId, user, pairs,
                                 [NoOptions EXCEPT !.chunkSize = Some(c)],
                                 tokenProgramId, "callerHash")
              IN /\ Len(ts) = 1
                 /\ ts[1].instructions = ixResult

C9_Witness ==
  /\ fn = "instruction"
  /\ pc = "done"
  /\ Len(pairs) = 13
  /\ Len(ixResult) = 1
  /\ Len(ixResult[1].keys) = 30
  /\ tokenProgramId = Some(TOKEN_2022_PROGRAM_ID)

(* C10: every transaction of one returned list has the same fee payer:     *)
(* options.feePayer when supplied, otherwise the user.                     *)
C10_FeePayer ==
  Returned =>
    \A j \in 1..Len(txResult) :
      txResult[j].feePayer = IF options.feePayer = None THEN user ELSE options.feePayer[1]

C10_Witness ==
  /\ Returned
  /\ Len(txResult) = 2
  /\ options.feePayer # None
  /\ options.feePayer[1] # user
  /\ txResult[2].feePayer = options.feePayer[1]
====
